---- MODULE Spec2Model ----
(***************************************************************************)
(* Model of lemmy_block: paginated discovery of the communities of a set   *)
(* of source instances (get_all_communities_from_instance, get_block_list) *)
(* and the per-account block orchestration (block_communities,             *)
(* block_community, the Instance methods).  The remote Lemmy service is    *)
(* the environment: each remote call draws its response from a small set.  *)
(***************************************************************************)
EXTENDS Integers, Sequences, FiniteSets, TLC

(* ---------------------------- bounds ---------------------------------- *)
NumAccounts == 2      \* accounts in the roster (accounts.ini sections)
MaxTargets == 2       \* longest block list handed to block_communities
MaxPages == 2         \* non-empty pages a source serves before it is forced to end
NumPasses == 2        \* consecutive calls of block_communities in the re-run scenario

(* -------------------------- value domains ----------------------------- *)
Hosts == {"h1", "h2"}
Names == {"c1"}
Accounts == 1..NumAccounts

\* Optional list (list | None): None is distinct from the empty list.
None == [none |-> TRUE, v |-> <<>>]
Some(l) == [none |-> FALSE, v |-> l]

\* block_community.py: the dataclass, block defaulting to True
\* (BlockCommunityFalse: the default the other way round)
BlockCommunityFalse(name, instance) == [name |-> name, instance |-> instance, block |-> FALSE]
BlockCommunity(name, instance) == [name |-> name, instance |-> instance, block |-> TRUE]

Targets == {BlockCommunity(n, h) : n \in Names, h \in Hosts}

\* all sequences over S of length at most n
RECURSIVE SeqsUpTo(_, _)
SeqsUpTo(S, n) ==
    IF n = 0 THEN {<<>>}
    ELSE LET shorter == SeqsUpTo(S, n - 1)
         IN  shorter \cup {Append(s, x) : s \in {t \in shorter : Len(t) = n - 1}, x \in S}

\* the remote service's numeric identity of the community "name@instance"
QualifiedName(community) == <<community.name, community.instance>>
HostNo(h) == IF h = "h1" THEN 1 ELSE 2
CommunityId(qname) == IF qname[1] = "c1" THEN HostNo(qname[2]) ELSE 2 + HostNo(qname[2])
CommunityIds == {CommunityId(<<n, h>>) : n \in Names, h \in Hosts}

\* federated_instances.blocked as the remote may report it: a list of
\* instance records, of which the program reads .domain
Inst(h) == [domain |-> h]
FedLists == {<<>>, <<Inst("h1")>>, <<Inst("h1"), Inst("h2")>>}

\* blocklist.ini: the source instances, in section order
Sources == <<"h1", "h2">>

\* community summaries of a list_communities page; id 0 stands for a null id
NullId == 0
Summary(name, id) == [name |-> name, id |-> id]
PageContents ==
    {<<Summary("c1", 1)>>,
     <<Summary("c1", 1), Summary("c2", NullId)>>,
     <<Summary("c2", NullId), Summary("c2", 2)>>}

\* CommunityView | None returned by Instance.get_community
NoView == [none |-> TRUE, blocked |-> "null", id |-> 0]
View(blocked, id) == [none |-> FALSE, blocked |-> blocked, id |-> id]

VARIABLES
    instances,          \* roster handed to block_communities (one Instance per account)
    block_list,         \* target list handed to block_communities
    pc,                 \* position of block_communities
    acct,               \* index into instances of the loop variable `instance`
    attempts,           \* local of Instance.get_blocked_instances
    blocked_instances,  \* list | None
    index,              \* enumerate(block_list) position, 1-based
    status,             \* per account: NotLoggedIn, LoggedIn, Processing, Done, LoginFailed
    remote_blocked,     \* remote service: communities each account blocks
    pass,               \* which consecutive call of block_communities is running
    finished,           \* per account: the passes in which its target loop ran to the end
    calls,              \* remote calls and skips of the account last worked on, in order
    src,                \* get_block_list: index of the section being discovered
    page,               \* get_all_communities_from_instance: page
    run,                \* get_all_communities_from_instance: run
    disc,               \* get_all_communities_from_instance: its local block_list
    reqs,               \* list_communities requests of the source last discovered, in order
    discovered,         \* what each finished discovery returned to get_block_list, in order
    fed_seen            \* hosts the concrete federation lists obtained in this run held

orch_vars == <<instances, acct, attempts, blocked_instances, index, status,
               remote_blocked, pass, finished, calls, fed_seen>>
disc_vars == <<src, page, run, disc, reqs, discovered>>
vars == <<instances, block_list, pc, acct, attempts, blocked_instances, index,
          status, remote_blocked, pass, finished, calls, src, page, run, disc, reqs,
          discovered, fed_seen>>

(* ----------------------- call log (history) --------------------------- *)
Call(op, a, pos, ok) ==
    [op |-> op, acct |-> a, pos |-> pos, ok |-> ok, pass |-> pass, block |-> TRUE,
     id |-> 0, list |-> None, flag |-> "null"]
FedCall(a, ok, l) == [Call("get_federated_instances", a, 0, ok) EXCEPT !.list = l]
LookupCall(a, pos, view) ==
    [Call("get_community", a, pos, ~view.none) EXCEPT !.flag = view.blocked, !.id = view.id]
BlockCall(a, pos, ok, block, id) ==
    [Call("block_community", a, pos, ok) EXCEPT !.block = block, !.id = id]

CallsOf(op) == {i \in 1..Len(calls) : calls[i].op = op}
CallsAt(op, pos) == {i \in CallsOf(op) : calls[i].pos = pos}

(* --------------------------- instance.py ------------------------------ *)
\* Instance.login: True unless srv.login raised
\* (Instance_login_AlwaysTrue: the exception is swallowed and True returned;
\*  Instance_login_Inverted: the two return values are swapped)
Instance_login_Inverted(resp) == resp # "ok"
Instance_login_AlwaysTrue(resp) == TRUE
Instance_login(resp) == resp = "ok"

\* Instance.get_community: the view, or None when the call or its parsing raised
\* (Instance_get_community_DefaultView: a failure yields an empty view, not None)
Instance_get_community_DefaultView(resp) == IF resp.ok THEN resp.view ELSE View("false", 0)
Instance_get_community(resp) == IF resp.ok THEN resp.view ELSE NoView

\* Instance.get_blocked_instances: `while attempts <= 2`
\* (WhileAttempts_Four, WhileAttempts_Two: the loop bound off by one either way)
WhileAttempts_Four(n) == n <= 3
WhileAttempts_Two(n) == n <= 1
WhileAttempts(n) == n <= 2

(* -------------------------- lemmy_block.py ---------------------------- *)
\* block_communities line 191: blocked_instances starts as None for each account
\* logged in (as does the local of get_blocked_instances, instance.py line 83)
\* (InitialBlockedInstances_Cached: the list of the account before is kept)
InitialBlockedInstances_Cached(previous) == previous
InitialBlockedInstances(previous) == None

\* block_communities lines 204-217: the instance-level skip test
\* (InstanceIsBlocked_FirstOnly: only the first entry is compared;
\*  InstanceIsBlocked_NoneSkips: None is taken for "blocked")
InstanceIsBlocked_FirstOnly(bi, community) ==
    /\ ~bi.none
    /\ Len(bi.v) > 0
    /\ bi.v[1].domain = community.instance
InstanceIsBlocked_NoneSkips(bi, community) ==
    \/ bi.none
    \/ \E i \in 1..Len(bi.v) : bi.v[i].domain = community.instance
InstanceIsBlocked(bi, community) ==
    /\ ~bi.none
    /\ \E i \in 1..Len(bi.v) : bi.v[i].domain = community.instance

\* block_community lines 147-168: what follows the lookup
\*   "except" : community_view is None, `.blocked` raises, caught at line 166
\*   "skip"   : community_view.blocked is True
\*   "block"  : anything else, Instance.block_community is called
\* (BlockDecision_NoneBlocks: a None view falls through to the block call;
\*  BlockDecision_IgnoresFlag: the blocked flag is not consulted;
\*  BlockDecision_NullSkips: `is not False` in place of `is True`)
BlockDecision_NoneBlocks(view) ==
    IF view.none THEN "block"
    ELSE IF view.blocked = "true" THEN "skip"
    ELSE "block"
BlockDecision_IgnoresFlag(view) ==
    IF view.none THEN "except"
    ELSE "block"
BlockDecision_NullSkips(view) ==
    IF view.none THEN "except"
    ELSE IF view.blocked # "false" THEN "skip"
    ELSE "block"
BlockDecision(view) ==
    IF view.none THEN "except"
    ELSE IF view.blocked = "true" THEN "skip"
    ELSE "block"

\* block_communities lines 204-206: the "Failed to gather Blocked Instances" warning
\* (WarnsIndeterminate_Falsy: `if not blocked_instances`, true of an empty list too)
WarnsIndeterminate_Falsy(bi) == bi.none \/ bi.v = <<>>
WarnsIndeterminate(bi) == bi.none

\* block_communities line 202: enumerate(block_list), as <<position, community>> pairs
\* (Enumerate_Reversed: the list is walked from its end)
Enumerate_Reversed(list) ==
    [i \in 1..Len(list) |-> <<Len(list) - i + 1, list[Len(list) - i + 1]>>]
Enumerate(list) == [i \in 1..Len(list) |-> <<i, list[i]>>]

\* how a call of block_community ended: "except" (the lookup gave None), "skip"
\* (already blocked), "blocked" or "block_failed" (Instance.block_community
\* returned the confirmation or, its exception caught, None).  No outcome leaves
\* block_community as an exception: lines 166-168, instance.py 45-49 and 68-75.
\* (Propagates_BlockFailure, Propagates_LookupFailure: one failure is not caught)
Propagates_BlockFailure(outcome) == outcome = "block_failed"
Propagates_LookupFailure(outcome) == outcome = "except"
Propagates(outcome) == FALSE

(* ------------------------- remote service ----------------------------- *)
\* responses get_community may draw for this account and community
LookupResponses(a, community) ==
    LET id == CommunityId(QualifiedName(community))
    IN  {[ok |-> FALSE, view |-> NoView]} \cup
        {[ok |-> TRUE, view |-> View(b, id)] :
            b \in IF id \in remote_blocked[a] THEN {"true"} ELSE {"false", "null"}}

\* effect of a block_community(block, community_id) call the remote accepted
RemoteApply(rb, a, block, id) ==
    [rb EXCEPT ![a] = IF block THEN @ \cup {id} ELSE @ \ {id}]

(* ------------------------------ Init ---------------------------------- *)
\* block_communities is entered with the list get_block_list returned
InitCommon ==
    /\ block_list \in SeqsUpTo(Targets, MaxTargets)
    /\ pc = "login"
    /\ src = Len(Sources) + 1
    /\ page = 1
    /\ run = FALSE
    /\ disc = <<>>
    /\ reqs = <<>>
    /\ discovered = <<>>
    /\ acct = 1
    /\ attempts = 0
    /\ blocked_instances = None
    /\ index = 1
    /\ pass = 1
    /\ calls = <<>>
    /\ fed_seen = {}

\* main: one Instance per account of the roster; the remote holds no block yet
Init ==
    /\ InitCommon
    /\ instances = [i \in 1..NumAccounts |-> i]
    /\ status = [a \in Accounts |-> "NotLoggedIn"]
    /\ remote_blocked = [a \in Accounts |-> {}]
    /\ finished = [a \in Accounts |-> {}]

(* ----------------------------- actions -------------------------------- *)
\* the for loop over instances moves on (or block_communities returns)
NextAccount == IF acct + 1 > Len(instances) THEN "done" ELSE "login"

\* block_communities lines 184-191: instance.login() and the test of its result
Login ==
    /\ pc = "login"
    /\ acct <= Len(instances)
    /\ \E resp \in {"ok", "fail"} :
         LET a == instances[acct]
             result == Instance_login(resp)
         IN  /\ calls' = <<Call("login", a, 0, resp = "ok")>>
             /\ IF result
                  THEN /\ status' = [status EXCEPT ![a] = "LoggedIn"]
                       /\ pc' = "get_blocked"
                       /\ attempts' = 0
                       /\ blocked_instances' = InitialBlockedInstances(blocked_instances)
                       /\ UNCHANGED acct
                  ELSE /\ status' = [status EXCEPT ![a] = "LoginFailed"]
                       /\ pc' = NextAccount
                       /\ acct' = acct + 1
                       /\ UNCHANGED <<attempts, blocked_instances>>
    /\ UNCHANGED <<instances, block_list, index, remote_blocked, pass, finished, fed_seen>>
    /\ UNCHANGED disc_vars

\* Instance.get_blocked_instances lines 86-101: one iteration of the retry loop
GetBlockedAttempt ==
    /\ pc = "get_blocked"
    /\ WhileAttempts(attempts)
    /\ \E resp \in {None} \cup {Some(l) : l \in FedLists} :
         LET a == instances[acct]
         IN  /\ calls' = Append(calls, FedCall(a, ~resp.none, resp))
             /\ IF resp.none
                  THEN /\ attempts' = attempts + 1
                       /\ UNCHANGED <<blocked_instances, pc, index, status, fed_seen>>
                  ELSE /\ blocked_instances' = resp
                       /\ fed_seen' = fed_seen \cup {resp.v[k].domain : k \in 1..Len(resp.v)}
                       /\ pc' = "loop"
                       /\ index' = 1
                       /\ status' = [status EXCEPT ![a] = "Processing"]
                       /\ UNCHANGED attempts
    /\ UNCHANGED <<instances, block_list, acct, remote_blocked, pass, finished>>
    /\ UNCHANGED disc_vars

\* Instance.get_blocked_instances lines 103-106: the loop ran out, None is returned
GetBlockedExhausted ==
    /\ pc = "get_blocked"
    /\ ~WhileAttempts(attempts)
    /\ pc' = "loop"
    /\ index' = 1
    /\ status' = [status EXCEPT ![instances[acct]] = "Processing"]
    /\ UNCHANGED <<instances, block_list, acct, attempts, blocked_instances,
                   remote_blocked, pass, finished, fed_seen, calls>>
    /\ UNCHANGED disc_vars

\* block_communities lines 209-217: the target's instance is federation-blocked
SkipTarget ==
    /\ pc = "loop"
    /\ index <= Len(block_list)
    /\ InstanceIsBlocked(blocked_instances, Enumerate(block_list)[index][2])
    /\ calls' = Append(calls, Call("skip", instances[acct],
                                    Enumerate(block_list)[index][1], TRUE))
    /\ index' = index + 1
    /\ UNCHANGED <<instances, block_list, pc, acct, attempts, blocked_instances,
                   status, remote_blocked, pass, finished, fed_seen>>
    /\ UNCHANGED disc_vars

\* block_communities lines 204-206 and 219-225 with the whole of block_community
\* (131-168): the warning, the lookup, the decision and the block call
BlockCommunityStep ==
    /\ pc = "loop"
    /\ index <= Len(block_list)
    /\ ~InstanceIsBlocked(blocked_instances, Enumerate(block_list)[index][2])
    /\ LET a == instances[acct]
           pos == Enumerate(block_list)[index][1]
           community == Enumerate(block_list)[index][2]
           warned == IF WarnsIndeterminate(blocked_instances)
                       THEN Append(calls, Call("warn", a, pos, TRUE))
                       ELSE calls
       IN  \E resp \in LookupResponses(a, community) : \E accepted \in BOOLEAN :
             LET community_view == Instance_get_community(resp)
                 looked == Append(warned, LookupCall(a, pos, community_view))
                 decision == BlockDecision(community_view)
                 outcome == IF decision # "block" THEN decision
                            ELSE IF accepted THEN "blocked" ELSE "block_failed"
             IN  /\ decision # "block" => accepted
                 /\ IF decision = "block"
                      THEN /\ calls' = Append(looked,
                                  BlockCall(a, pos, accepted, community.block,
                                            community_view.id))
                           /\ remote_blocked' =
                                  IF accepted
                                    THEN RemoteApply(remote_blocked, a, community.block,
                                                     community_view.id)
                                    ELSE remote_blocked
                      ELSE /\ calls' = looked
                           /\ UNCHANGED remote_blocked
                 /\ IF Propagates(outcome)
                      THEN pc' = "raised" /\ UNCHANGED index
                      ELSE index' = index + 1 /\ UNCHANGED pc
    /\ UNCHANGED <<instances, block_list, acct, attempts, blocked_instances,
                   status, pass, finished, fed_seen>>
    /\ UNCHANGED disc_vars

\* block_communities line 202: the target loop is exhausted for this account
FinishAccount ==
    /\ pc = "loop"
    /\ index > Len(block_list)
    /\ status' = [status EXCEPT ![instances[acct]] = "Done"]
    /\ finished' = [finished EXCEPT ![instances[acct]] = @ \cup {pass}]
    /\ pc' = NextAccount
    /\ acct' = acct + 1
    /\ UNCHANGED <<instances, block_list, attempts, blocked_instances, index,
                   remote_blocked, pass, calls, fed_seen>>
    /\ UNCHANGED disc_vars

Next ==
    \/ Login
    \/ GetBlockedAttempt
    \/ GetBlockedExhausted
    \/ SkipTarget
    \/ BlockCommunityStep
    \/ FinishAccount

Spec == Init /\ [][Next]_vars

(* -------------------- running the orchestrator again ------------------ *)
\* block_communities(instances, block_list) is called again with the same
\* arguments; the remote service keeps what it holds
Rerun ==
    /\ pc = "done"
    /\ pass < NumPasses
    /\ pass' = pass + 1
    /\ pc' = "login"
    /\ acct' = 1
    /\ status' = [a \in Accounts |-> "NotLoggedIn"]
    /\ fed_seen' = {}
    /\ UNCHANGED <<instances, block_list, attempts, blocked_instances, index,
                   remote_blocked, finished, calls>>
    /\ UNCHANGED disc_vars

InitRerun ==
    /\ InitCommon
    /\ instances = <<1>>
    /\ status = [a \in Accounts |-> "NotLoggedIn"]
    /\ remote_blocked = [a \in Accounts |-> {}]
    /\ finished = [a \in Accounts |-> {}]

NextRerun == Next \/ Rerun

SpecRerun == InitRerun /\ [][NextRerun]_vars

(* ----------------------------- discovery ------------------------------ *)
\* what list_communities(limit=50, page=p, type_="Local") may answer:
\* a failure, an empty page, or (up to MaxPages) a page of communities
PageFail == [ok |-> FALSE, communities |-> <<>>]
PageOf(cs) == [ok |-> TRUE, communities |-> cs]
PageResponses(p) ==
    {PageFail, PageOf(<<>>)} \cup
    (IF p <= MaxPages THEN {PageOf(cs) : cs \in PageContents} ELSE {})

\* lines 86-93: one BlockCommunity per community whose id is not None
\* (TargetsOfPage_KeepsNull: the id test is left out)
RECURSIVE TargetsOfPage_KeepsNull(_, _)
TargetsOfPage_KeepsNull(communities, instance) ==
    IF communities = <<>> THEN <<>>
    ELSE <<BlockCommunity(Head(communities).name, instance)>>
             \o TargetsOfPage_KeepsNull(Tail(communities), instance)
RECURSIVE TargetsOfPage(_, _)
TargetsOfPage(communities, instance) ==
    IF communities = <<>> THEN <<>>
    ELSE LET community == Head(communities)
             rest == TargetsOfPage(Tail(communities), instance)
         IN  IF community.id # NullId
               THEN <<BlockCommunity(community.name, instance)>> \o rest
               ELSE rest

\* lines 82-84 and 98-99: the value of `run` after a page request
\* (RunAfter_RetriesFailure: the except branch leaves run set)
RunAfter_RetriesFailure(resp) == ~resp.ok \/ Len(resp.communities) # 0
RunAfter(resp) ==
    IF ~resp.ok THEN FALSE
    ELSE IF Len(resp.communities) = 0 THEN FALSE
    ELSE TRUE

\* get_block_list line 126: block_list += <what discovery returned>
\* (Extend_Overwrites: `=` in place of `+=`)
Extend_Overwrites(list, found) == found
Extend(list, found) == list \o found

\* get_block_list lines 124-126 entering get_all_communities_from_instance (69-72)
StartDiscovery ==
    /\ pc = "sections"
    /\ src <= Len(Sources)
    /\ pc' = "paging"
    /\ page' = 1
    /\ run' = TRUE
    /\ disc' = <<>>
    /\ reqs' = <<>>
    /\ UNCHANGED <<block_list, src, discovered>>
    /\ UNCHANGED orch_vars

\* get_all_communities_from_instance lines 75-101: one iteration of `while run`
RequestPage ==
    /\ pc = "paging"
    /\ run
    /\ \E resp \in PageResponses(page) :
         /\ reqs' = Append(reqs, [source |-> Sources[src], page |-> page, resp |-> resp])
         /\ run' = RunAfter(resp)
         /\ IF resp.ok /\ Len(resp.communities) # 0
              THEN /\ disc' = disc \o TargetsOfPage(resp.communities, Sources[src])
                   /\ page' = page + 1
              ELSE UNCHANGED <<disc, page>>
    /\ UNCHANGED <<block_list, pc, src, discovered>>
    /\ UNCHANGED orch_vars

\* line 103 returning into get_block_list line 126: block_list += ...
ReturnDiscovery ==
    /\ pc = "paging"
    /\ ~run
    /\ block_list' = Extend(block_list, disc)
    /\ discovered' = Append(discovered,
           [source |-> Sources[src], targets |-> disc,
            failed |-> reqs # <<>> /\ ~reqs[Len(reqs)].resp.ok])
    /\ src' = src + 1
    /\ pc' = "sections"
    /\ UNCHANGED <<page, run, disc, reqs>>
    /\ UNCHANGED orch_vars

\* get_block_list line 128
ReturnBlockList ==
    /\ pc = "sections"
    /\ src > Len(Sources)
    /\ pc' = "returned"
    /\ UNCHANGED <<block_list, src, page, run, disc, reqs, discovered>>
    /\ UNCHANGED orch_vars

InitDiscover ==
    /\ pc = "sections"
    /\ block_list = <<>>
    /\ src = 1
    /\ page = 1
    /\ run = FALSE
    /\ disc = <<>>
    /\ reqs = <<>>
    /\ discovered = <<>>
    /\ instances = [i \in 1..NumAccounts |-> i]
    /\ acct = 1
    /\ attempts = 0
    /\ blocked_instances = None
    /\ index = 1
    /\ status = [a \in Accounts |-> "NotLoggedIn"]
    /\ remote_blocked = [a \in Accounts |-> {}]
    /\ finished = [a \in Accounts |-> {}]
    /\ pass = 1
    /\ calls = <<>>
    /\ fed_seen = {}

NextDiscover ==
    \/ StartDiscovery
    \/ RequestPage
    \/ ReturnDiscovery
    \/ ReturnBlockList

SpecDiscover == InitDiscover /\ [][NextDiscover]_vars

\* the scheduler is the interpreter's single thread: a step that can be taken is taken
FairSpec == Init /\ [][Next]_vars /\ WF_vars(Next)

TypeOK ==
    /\ pc \in {"login", "get_blocked", "loop", "done", "raised",
              "sections", "paging", "returned"}
    /\ acct \in 1..(NumAccounts + 1)
    /\ attempts \in 0..3
    /\ run \in BOOLEAN

(* ====================== properties of the orchestrator ================= *)
\* the account the call log belongs to
LogAcct == calls[1].acct
\* the guard has returned for the log's account (blocked_instances is its result)
GuardReturned == calls # <<>> /\ status[LogAcct] \in {"Processing", "Done"}
\* the target loop of the log's account has moved past position p
Passed(p) ==
    /\ GuardReturned
    /\ status[LogAcct] = "Done" \/ p < index
Processed(p) == CallsAt("skip", p) # {} \/ CallsAt("get_community", p) # {}
Positions == 1..Len(block_list)
FedCalls == CallsOf("get_federated_instances")
FedSucceeded == \E i \in FedCalls : calls[i].ok
Lists(h) == {l \in FedLists : \E k \in 1..Len(l) : l[k].domain = h}

\* C1: when an account's federation fetch returned a concrete list with an entry
\* whose domain is H, every target hosted on H is skipped: no get_community and no
\* block_community call is issued for it.
C1_FederationShortcut ==
    \A i \in FedCalls : \A p \in Positions :
        (calls[i].ok /\ calls[i].list.v \in Lists(block_list[p].instance)) =>
            /\ CallsAt("get_community", p) = {}
            /\ CallsAt("block_community", p) = {}
            /\ Passed(p) => CallsAt("skip", p) # {}

C1_Witness ==
    /\ GuardReturned /\ status[LogAcct] = "Done"
    /\ blocked_instances = Some(<<Inst("h1")>>)
    /\ \E p, q \in Positions :
         /\ block_list[p].instance = "h1" /\ CallsAt("skip", p) # {}
         /\ block_list[q].instance = "h2" /\ CallsAt("block_community", q) # {}

\* C2: when the Federation Guard reported indeterminate (None) for an account, no
\* target of that account is skipped on instance-level grounds and a community
\* lookup is issued for every target the loop has handled, in every position.
C2_IndeterminateSafety ==
    (GuardReturned /\ ~FedSucceeded) =>
        /\ blocked_instances = None
        /\ \A p \in Positions :
             /\ CallsAt("skip", p) = {}
             /\ Passed(p) => Cardinality(CallsAt("get_community", p)) = 1

C2_Witness ==
    /\ GuardReturned /\ ~FedSucceeded /\ status[LogAcct] = "Done"
    /\ Len(block_list) = MaxTargets
    /\ \A p \in Positions : CallsAt("get_community", p) # {}

\* C3 (as claimed): once block_communities has applied the target list to an
\* account (its first pass ran that account's target loop to the end), running it
\* again with the same target list against the same account issues zero block
\* calls during the second pass.
C3_Idempotent ==
    \A i \in CallsOf("block_community") :
        calls[i].pass = 2 => 1 \notin finished[calls[i].acct]

\* C3 (amended): on a pass after the first, no block call is issued for a target
\* whose community the remote service already holds blocked for that account, as
\* it does every community a first-pass block call succeeded for.
C3_NoReblock ==
    [][\A i \in (Len(calls) + 1)..Len(calls') :
          (calls'[i].op = "block_community" /\ calls'[i].pass > 1) =>
              calls'[i].id \notin remote_blocked[calls'[i].acct]]_vars

C3_Witness ==
    /\ pass = 2 /\ calls # <<>> /\ finished[LogAcct] = {1, 2}
    /\ Len(block_list) = 2 /\ block_list[1] # block_list[2]
    /\ remote_blocked[LogAcct] = CommunityIds
    /\ CallsOf("block_community") = {}
    /\ \A p \in Positions :
         \E i \in CallsAt("get_community", p) : calls[i].pass = 2 /\ calls[i].flag = "true"

\* C4: when the community lookup for the target at position k fails on a logged-in
\* account, no block call is issued for position k, every later position is still
\* processed (skipped by the federation shortcut or looked up), and the account's
\* processing reaches Done.
LookupFailedAt(p) == \E i \in CallsAt("get_community", p) : ~calls[i].ok
C4_Safe ==
    \A k \in Positions : LookupFailedAt(k) =>
        /\ CallsAt("block_community", k) = {}
        /\ status[LogAcct] \in {"Processing", "Done"}
        /\ \A q \in Positions : (q > k /\ Passed(q)) => Processed(q)
C4_PartialFailureIsolation ==
    /\ []C4_Safe
    /\ \A a \in Accounts :
         (calls # <<>> /\ LogAcct = a /\ \E k \in Positions : LookupFailedAt(k))
            ~> (status[a] = "Done" /\ LogAcct = a /\ \A q \in Positions : Processed(q))

C4_Witness ==
    /\ GuardReturned /\ status[LogAcct] = "Done"
    /\ Len(block_list) = MaxTargets
    /\ LookupFailedAt(1)
    /\ \A q \in 2..Len(block_list) : \E i \in CallsAt("block_community", q) : calls[i].ok

\* C5: when login fails for an account, no federation fetch, lookup or block call
\* is issued for it and it ends in LoginFailed; every later account of the roster
\* is still attempted and, when its own login succeeds, has the whole target list
\* processed.
RosterPos(a) == CHOOSE i \in 1..Len(instances) : instances[i] = a
Settled(a) == status[a] \in {"Done", "LoginFailed"}
C5_Safe ==
    /\ (calls # <<>> /\ calls[1].op = "login" /\ ~calls[1].ok) =>
          /\ Len(calls) = 1
          /\ status[LogAcct] = "LoginFailed"
    /\ \A a, b \in Accounts :
          (status[a] = "LoginFailed" /\ RosterPos(b) > RosterPos(a)) =>
              /\ acct > RosterPos(b) => Settled(b)
              /\ (calls # <<>> /\ LogAcct = b /\ status[b] = "Done") =>
                    \A p \in Positions : Processed(p)
C5_AccountIsolation ==
    /\ []C5_Safe
    /\ \A a \in Accounts :
         (status[a] = "LoginFailed")
            ~> (\A b \in Accounts : RosterPos(b) > RosterPos(a) => Settled(b))

C5_Witness ==
    /\ status[instances[1]] = "LoginFailed"
    /\ status[instances[2]] = "Done"
    /\ calls # <<>> /\ LogAcct = instances[2]
    /\ Len(block_list) = MaxTargets
    /\ \A p \in Positions : Processed(p)

\* C6: Instance.get_blocked_instances makes at most 3 attempts; a successful
\* attempt is the last one made (every earlier attempt failed), and the guard returns
\* the concrete list that attempt obtained.
C6_RetryBound ==
    /\ Cardinality(FedCalls) <= 3
    /\ \A i \in FedCalls : calls[i].ok =>
          /\ \A j \in FedCalls : j # i => (j < i /\ ~calls[j].ok)
          /\ GuardReturned
          /\ blocked_instances = calls[i].list
          /\ ~blocked_instances.none

C6_Witness ==
    /\ GuardReturned
    /\ Cardinality(FedCalls) = 3
    /\ \E i \in FedCalls : calls[i].ok /\ calls[i].list = Some(<<Inst("h1"), Inst("h2")>>)
    /\ blocked_instances = Some(<<Inst("h1"), Inst("h2")>>)

\* C7: when every federation-list attempt fails, exactly 3 attempts are made and
\* the guard returns None, not an empty list; the orchestrator goes on with that
\* account: every target the loop has handled was looked up.
C7_ExhaustedIsIndeterminate ==
    (GuardReturned /\ ~FedSucceeded) =>
        /\ Cardinality(FedCalls) = 3
        /\ blocked_instances = None
        /\ blocked_instances # Some(<<>>)
        /\ pc \in {"loop", "login", "done"}
        /\ \A p \in Positions : Passed(p) => CallsAt("get_community", p) # {}

C7_Witness ==
    /\ GuardReturned /\ ~FedSucceeded
    /\ Cardinality(FedCalls) = 3
    /\ status[LogAcct] = "Done"
    /\ Len(block_list) >= 1
    /\ \E i \in CallsOf("block_community") : calls[i].ok

\* C10: every block call issued to the remote service carries desired state
\* blocked = true, as does every target of the list; no unblock is ever issued.
C10_StrictlyAdditive ==
    /\ \A p \in Positions : block_list[p].block = TRUE
    /\ \A i \in CallsOf("block_community") : calls[i].block = TRUE

C10_Witness ==
    \E i \in CallsOf("block_community") :
        /\ calls[i].ok /\ calls[i].block
        /\ calls[i].id \in remote_blocked[calls[i].acct]

(* ========================= properties of discovery ===================== *)
\* names of the communities of a page that have an id, in page order
HasId(c) == c.id # NullId
NamesWithId(cs) ==
    LET kept == SelectSeq(cs, HasId)
    IN  [i \in 1..Len(kept) |-> kept[i].name]
\* ... of the pages answered to the first n requests of the current source
RECURSIVE NamesUpTo(_)
NamesUpTo(n) ==
    IF n = 0 THEN <<>> ELSE NamesUpTo(n - 1) \o NamesWithId(reqs[n].resp.communities)
\* disc holds exactly one target per such community, in order
DiscIsPages(n) ==
    /\ Len(disc) = Len(NamesUpTo(n))
    /\ \A i \in 1..Len(disc) :
         /\ disc[i].name = NamesUpTo(n)[i]
         /\ disc[i].instance = reqs[1].source
\* discovery of the current source has returned its list into get_block_list
DiscoveryReturned == reqs # <<>> /\ pc \in {"sections", "returned"}
ReturnedIsDisc ==
    /\ Len(block_list) >= Len(disc)
    /\ SubSeq(block_list, Len(block_list) - Len(disc) + 1, Len(block_list)) = disc
EmptyPageAt(i) == reqs[i].resp.ok /\ reqs[i].resp.communities = <<>>
NonEmptyPageAt(i) == reqs[i].resp.ok /\ reqs[i].resp.communities # <<>>

\* C8: against a source that answers n non-empty pages and then an empty page,
\* discovery requests exactly pages 1..n+1 in order, stops after the first empty
\* page, and returns exactly one target per community with a non-null id, in page
\* order.
C8_PaginationTermination ==
    /\ \A i \in 1..Len(reqs) : reqs[i].page = i /\ reqs[i].source = reqs[1].source
    /\ \A i \in 1..Len(reqs) : EmptyPageAt(i) =>
          /\ i = Len(reqs)
          /\ ~run
          /\ (\A j \in 1..(i - 1) : NonEmptyPageAt(j)) => DiscIsPages(i - 1)
          /\ DiscoveryReturned => ReturnedIsDisc

C8_Witness ==
    /\ DiscoveryReturned
    /\ Len(reqs) = 3
    /\ EmptyPageAt(3)
    /\ reqs[1].resp.communities = <<Summary("c1", 1), Summary("c2", NullId)>>
    /\ reqs[2].resp.communities = <<Summary("c2", NullId), Summary("c2", 2)>>
    /\ Len(disc) = 2

\* C9: when the request for page k fails, discovery of that source stops at once
\* without raising, returns exactly the targets of pages 1..k-1, and requests no
\* further page of that source (page k is not retried, page k+1 is not requested).
C9_PaginationErrorTermination ==
    \A k \in 1..Len(reqs) : ~reqs[k].resp.ok =>
        /\ k = Len(reqs)
        /\ ~run
        /\ reqs[k].page = k
        /\ DiscIsPages(k - 1)
        /\ DiscoveryReturned => ReturnedIsDisc

C9_Witness ==
    /\ DiscoveryReturned
    /\ Len(reqs) = 2
    /\ ~reqs[2].resp.ok
    /\ reqs[1].resp.communities = <<Summary("c1", 1), Summary("c2", NullId)>>
    /\ Len(disc) = 1

(* ================= further properties of the orchestrator ============== *)
RemoteOps == {"get_federated_instances", "get_community", "block_community"}

\* C11: no federation-list fetch, community lookup or block call is issued on an
\* account's Instance unless a login on that Instance completed successfully
\* earlier in the same run.
C11_LoginFirst ==
    \A i \in 1..Len(calls) : calls[i].op \in RemoteOps =>
        /\ i > 1
        /\ calls[1].op = "login" /\ calls[1].ok
        /\ calls[1].acct = calls[i].acct
        /\ calls[1].pass = calls[i].pass
        /\ status[calls[i].acct] \in {"LoggedIn", "Processing", "Done"}

C11_Witness ==
    /\ calls # <<>> /\ LogAcct = instances[NumAccounts]
    /\ calls[1].op = "login" /\ calls[1].ok
    /\ \A op \in RemoteOps : \E i \in CallsOf(op) : i > 1 /\ calls[i].ok

\* C12: whenever the lookup for a target returns a view whose blocked flag is
\* true, no block call is issued for that account and target, and processing moves
\* on to the next target.
AlreadyBlockedAt(p) == \E i \in CallsAt("get_community", p) : calls[i].ok /\ calls[i].flag = "true"
C12_AlreadyBlockedSkip ==
    \A p \in Positions : AlreadyBlockedAt(p) =>
        /\ CallsAt("block_community", p) = {}
        /\ Passed(p)
        /\ pc # "raised"
        /\ \A q \in Positions : (q > p /\ Passed(q)) => Processed(q)

C12_Witness ==
    /\ GuardReturned /\ status[LogAcct] = "Done"
    /\ Len(block_list) = 2
    /\ \E i \in CallsAt("block_community", 1) : calls[i].ok
    /\ AlreadyBlockedAt(2)
    /\ CallsAt("block_community", 2) = {}

\* C13: when the block call for a target fails, the failure is not propagated:
\* no second block call is issued for that target in the pass, the remaining
\* targets of the account are still processed, and so are the remaining accounts.
BlockFailedAt(p) == \E j \in CallsAt("block_community", p) : ~calls[j].ok
C13_Safe ==
    \A p \in Positions : BlockFailedAt(p) =>
        /\ Cardinality(CallsAt("block_community", p)) = 1
        /\ pc # "raised"
        /\ \A q \in Positions : (q > p /\ Passed(q)) => Processed(q)
C13_BlockFailureIsolation ==
    /\ []C13_Safe
    /\ \A a \in Accounts :
         (calls # <<>> /\ LogAcct = a /\ \E p \in Positions : BlockFailedAt(p))
            ~> (status[a] = "Done" /\ LogAcct = a /\ \A q \in Positions : Processed(q))
    /\ (\E p \in Positions : BlockFailedAt(p))
            ~> (pc = "done" /\ \A b \in Accounts : Settled(b))

C13_Witness ==
    /\ GuardReturned /\ status[LogAcct] = "Done"
    /\ LogAcct = instances[1]
    /\ Len(block_list) = MaxTargets
    /\ BlockFailedAt(1)
    /\ \A q \in 2..Len(block_list) : \E i \in CallsAt("block_community", q) : calls[i].ok

(* ==================== properties of get_block_list ===================== *)
RECURSIVE ConcatTargets(_)
ConcatTargets(n) ==
    IF n = 0 THEN <<>> ELSE ConcatTargets(n - 1) \o discovered[n].targets

\* C14: get_block_list runs discovery exactly once per configured source, in
\* configuration order, and its list is the concatenation, in that order, of what
\* each discovery found; a source whose discovery failed contributes what it had
\* accumulated, and every later source is still discovered.
C14_TargetListBuilder ==
    /\ Len(discovered) = src - 1
    /\ \A i \in 1..Len(discovered) :
         /\ discovered[i].source = Sources[i]
         /\ \A k \in 1..Len(discovered[i].targets) :
              discovered[i].targets[k].instance = Sources[i]
    /\ pc \in {"sections", "returned"} => block_list = ConcatTargets(Len(discovered))
    /\ pc = "returned" => Len(discovered) = Len(Sources)

C14_Witness ==
    /\ pc = "returned"
    /\ discovered[1].failed /\ Len(discovered[1].targets) = 2
    /\ ~discovered[2].failed /\ Len(discovered[2].targets) = 1
    /\ Len(block_list) = 3
    /\ block_list[1].instance = "h1" /\ block_list[3].instance = "h2"

(* ================ further properties of block_community ================ *)
Lookups(p) == CallsAt("get_community", p)
Blocks(p) == CallsAt("block_community", p)
IdOf(community) == CommunityId(QualifiedName(community))
NullFlagAt(p) == \E i \in Lookups(p) : calls[i].ok /\ calls[i].flag = "null"

\* C18: when a lookup succeeds with a view whose blocked flag is absent (null),
\* exactly one block call is issued for the target, carrying the looked-up id; of
\* the successful lookups only those whose flag is exactly true go without a block
\* call.
C18_MissingBlockedFlag ==
    \A p \in Positions :
        /\ NullFlagAt(p) =>
              /\ Cardinality(Blocks(p)) = 1
              /\ \A j \in Blocks(p) : \E i \in Lookups(p) :
                    /\ i < j
                    /\ calls[i].flag = "null"
                    /\ calls[j].id = calls[i].id
                    /\ calls[j].id = IdOf(block_list[p])
        /\ \A i \in Lookups(p) :
              (calls[i].ok /\ Blocks(p) = {}) <=> calls[i].flag = "true"

C18_Witness ==
    /\ GuardReturned /\ status[LogAcct] = "Done"
    /\ Len(block_list) = 2 /\ block_list[1] = block_list[2]
    /\ NullFlagAt(1)
    /\ \E j \in Blocks(1) : calls[j].ok /\ calls[j].id = IdOf(block_list[1])
    /\ AlreadyBlockedAt(2) /\ Blocks(2) = {}

(* =================== properties of the federation guard ================= *)
FedFailures == {i \in FedCalls : ~calls[i].ok}
HostIn(bi, h) == \E k \in 1..Len(bi.v) : bi.v[k].domain = h

\* C19: get_blocked_instances returns None exactly when all three attempts
\* failed; a successful attempt, an empty blocked list included, yields that
\* attempt's list, and with a list in hand the orchestrator prints no "Failed to
\* gather Blocked Instances" warning and skips only targets whose host is in it.
C19_IndeterminateDistinct ==
    GuardReturned =>
        /\ blocked_instances.none <=> (Cardinality(FedFailures) = 3 /\ ~FedSucceeded)
        /\ FedSucceeded =>
              \E i \in FedCalls : calls[i].ok /\ blocked_instances = calls[i].list
        /\ ~blocked_instances.none =>
              /\ CallsOf("warn") = {}
              /\ \A p \in Positions : CallsAt("skip", p) # {} =>
                    HostIn(blocked_instances, block_list[p].instance)

C19_Witness ==
    /\ GuardReturned /\ status[LogAcct] = "Done"
    /\ blocked_instances = Some(<<>>)
    /\ FedFailures # {}
    /\ Len(block_list) = 2
    /\ CallsOf("warn") = {} /\ CallsOf("skip") = {}
    /\ \A p \in Positions : Lookups(p) # {}

(* ====================== per-position call accounting ==================== *)
\* C20: for each position of the target list the pass issues exactly one lookup
\* when the position is not skipped by the federation shortcut and none when it
\* is, and at most one block call; a block call comes only after the position's
\* own successful lookup of the same pass with a view not flagged blocked, and
\* carries that lookup's id.  Equal targets at different positions are each
\* handled.
C20_CallAccounting ==
    \A p \in Positions :
        /\ Cardinality(Lookups(p)) <= 1
        /\ Cardinality(Blocks(p)) <= 1
        /\ Cardinality(CallsAt("skip", p)) <= 1
        /\ CallsAt("skip", p) # {} => Lookups(p) = {} /\ Blocks(p) = {}
        /\ Passed(p) =>
              /\ Cardinality(Lookups(p)) = IF CallsAt("skip", p) # {} THEN 0 ELSE 1
              /\ CallsAt("skip", p) # {} <=>
                    (~blocked_instances.none /\ HostIn(blocked_instances, block_list[p].instance))
        /\ \A j \in Blocks(p) : \E i \in Lookups(p) :
              /\ i < j
              /\ calls[i].ok /\ calls[i].flag # "true"
              /\ calls[i].pass = calls[j].pass /\ calls[i].acct = calls[j].acct
              /\ calls[j].id = calls[i].id
              /\ calls[i].id = IdOf(block_list[p])

C20_Witness ==
    /\ GuardReturned /\ status[LogAcct] = "Done"
    /\ Len(block_list) = 2 /\ block_list[1] = block_list[2]
    /\ \A p \in Positions : Cardinality(Lookups(p)) = 1 /\ Cardinality(Blocks(p)) = 1
    /\ \E j \in Blocks(1) : ~calls[j].ok
    /\ \E j \in Blocks(2) : calls[j].ok

(* ========================= order of the remote calls =================== *)
\* within the log of one account: one account only, the federation fetches before
\* every target, positions never going back, a target's lookup before its block call
C16_Ordered ==
    /\ \A i \in 1..Len(calls) : calls[i].acct = LogAcct
    /\ calls # <<>> => LogAcct \in {instances[k] : k \in {acct - 1, acct} \cap 1..Len(instances)}
    /\ \A i, j \in 1..Len(calls) : i < j =>
          /\ calls[j].op # "login"
          /\ calls[i].pos <= calls[j].pos
          /\ calls[j].op = "get_federated_instances" =>
                calls[i].op \in {"login", "get_federated_instances"}
          /\ (calls[i].pos = calls[j].pos /\ calls[i].op = "block_community") =>
                calls[j].op \notin {"get_community", "block_community"}
\* a step that adds calls adds them for the account at hand, after the ones made
\* so far; the first call for an account is its login, made when the account before
\* it in the roster is settled
C16_Step ==
    calls' # calls =>
        \/ /\ Len(calls') > Len(calls)
           /\ SubSeq(calls', 1, Len(calls)) = calls
           /\ \A i \in (Len(calls) + 1)..Len(calls') : calls'[i].acct = instances[acct]
        \/ /\ calls # <<>>
           /\ Len(calls') = 1
           /\ calls'[1].op = "login"
           /\ calls'[1].acct = instances[acct]
           /\ RosterPos(calls'[1].acct) = RosterPos(LogAcct) + 1
           /\ Settled(LogAcct)

\* C16: accounts are processed one at a time in roster order, every remote call
\* for one account coming before any for the next; within an account the targets
\* are handled in list order, every call for position j coming before any for
\* position j+1, and a target's lookup precedes its block call.
C16_StrictOrdering == []C16_Ordered /\ [][C16_Step]_vars

C16_Witness ==
    /\ pc = "done"
    /\ \A a \in Accounts : status[a] = "Done" /\ remote_blocked[a] # {}
    /\ LogAcct = instances[NumAccounts]
    /\ Len(block_list) = 2 /\ block_list[1] # block_list[2]
    /\ \A p \in Positions : Lookups(p) # {} /\ Blocks(p) # {}
    /\ FedFailures # {} /\ FedSucceeded

(* ============================ forward progress ========================= *)
\* C17: whatever the outcomes of the login, federation, lookup and block calls,
\* block_communities returns without raising, every account of the roster ending
\* Done or LoginFailed.  (C17_Safe: nothing is raised, and at the return every
\* account is settled.)
C17_Safe ==
    /\ pc # "raised"
    /\ pc = "done" => \A a \in Accounts : Settled(a)
C17_ForwardProgress == []C17_Safe /\ <>[](pc = "done")

C17_Witness ==
    /\ pc = "done"
    /\ status[instances[1]] = "LoginFailed"
    /\ status[LogAcct] = "Done"
    /\ Cardinality(FedFailures) = 3
    /\ Len(block_list) = 2
    /\ LookupFailedAt(1) /\ BlockFailedAt(2)

(* =================== scope of the federation block set ================= *)
\* C15: the instance-level skip decision for an account uses only the result of
\* that account's own federation fetch in this run: a target is skipped only on a
\* list that a fetch for this account returned, and when the account's fetch is
\* indeterminate no target is skipped, whatever set an earlier account obtained.
C15_ScopedPerAccount ==
    /\ pc = "get_blocked" => blocked_instances.none
    /\ GuardReturned =>
          /\ ~FedSucceeded => blocked_instances.none /\ CallsOf("skip") = {}
          /\ \A p \in Positions : CallsAt("skip", p) # {} =>
                \E i \in FedCalls :
                    /\ calls[i].ok /\ calls[i].acct = LogAcct
                    /\ calls[i].list = blocked_instances
                    /\ HostIn(calls[i].list, block_list[p].instance)
          /\ \A p \in Positions : (Passed(p) /\ ~FedSucceeded) => Lookups(p) # {}

\* an earlier account obtained a set with the target's host in it, the fetch of
\* the account at hand failed three times, and the target was looked up for it
C15_Witness ==
    /\ GuardReturned /\ status[LogAcct] = "Done"
    /\ RosterPos(LogAcct) > 1
    /\ ~FedSucceeded /\ Cardinality(FedFailures) = 3
    /\ block_list # <<>>
    /\ \A p \in Positions :
          /\ block_list[p].instance \in fed_seen
          /\ Lookups(p) # {} /\ CallsAt("skip", p) = {}
====
